---- MODULE Spec2Model ----
(***************************************************************************)
(* flom: link resolution and conversion engine.                            *)
(*                                                                         *)
(* Strings on which the program works character by character (targets,    *)
(* platform keys, URLs) are sequences of one-character strings, so that    *)
(* trim, to_lowercase, the byte-wise ordering of String and the URL parse  *)
(* are computed and not assumed.  Option<T> is None or [some |-> v].       *)
(* Result<T, FlomError> is [ok |-> v] or [err |-> kind, msg |-> pieces],   *)
(* where msg is the format! call: its format string and its argument.      *)
(***************************************************************************)
EXTENDS Integers, Sequences, FiniteSets, TLC

VARIABLES
    urls,             \* main: the input list being drained (Vec<String>)
    shorten_mode,     \* cli.shorten
    explicit_target,  \* cli.to : Option<String>
    default_target,   \* resolve_default_target(&config) : Option<String>
    pc,               \* position of main / process_url / shorten
    url,              \* the URL of the current loop iteration
    response,         \* the OdesliResponse of the current URL, or None
    target_key,       \* process_url's target_key, or None
    selected,         \* the label the user picked in prompt_target, or None
    trace,            \* steps taken for the current URL, in order
    out,              \* results printed for the current URL, in order
    last,             \* what process_url / shorten returned for the current URL
    success,          \* main's success counter
    failed,           \* main's failed counter
    summary,          \* what print_summary printed, or None
    inputs,           \* the list gather_inputs returned, as main received it
    processed,        \* the URLs whose loop iteration has completed, in order
    requests,         \* the URLs for which a request was sent, in order
    outcomes,         \* "ok" or "err" for each URL processed, in order
    emitted,          \* the number of results printed so far in the batch
    probe             \* a call of a pure function: its inputs and its output

vars == <<urls, shorten_mode, explicit_target, default_target, pc, url, response,
          target_key, selected, trace, out, last, success, failed, summary, inputs,
          processed, requests, outcomes, emitted, probe>>

None == [none |-> TRUE]
Some(v) == [some |-> v]
IsSome(o) == "some" \in DOMAIN o
Ok(v) == [ok |-> v]
Err(kind, msg) == [err |-> kind, msg |-> msg]
IsOk(r) == "ok" \in DOMAIN r
IsErr(r) == "err" \in DOMAIN r

----------------------------------------------------------------------------
(* Characters and str primitives *)

UpperCs == <<"A","B","C","D","E","F","G","H","I","J","K","L","M",
             "N","O","P","Q","R","S","T","U","V","W","X","Y","Z">>
LowerCs == <<"a","b","c","d","e","f","g","h","i","j","k","l","m",
             "n","o","p","q","r","s","t","u","v","w","x","y","z">>
Digits == <<"0","1","2","3","4","5","6","7","8","9">>

\* The characters of the model in increasing byte value.
AsciiOrder == <<"\t", "\n", " ", "+", "-", ".", "/">> \o Digits \o <<":">>
              \o UpperCs \o <<"_">> \o LowerCs

Range(s) == {s[i] : i \in 1..Len(s)}
IndexOf(s, c) == CHOOSE i \in 1..Len(s) : s[i] = c

byte_rank(c) == IndexOf(AsciiOrder, c)

is_ascii_uppercase(c) == c \in Range(UpperCs)
is_ascii_alphabetic(c) == c \in Range(UpperCs) \cup Range(LowerCs)
is_ascii_digit(c) == c \in Range(Digits)
is_whitespace(c) == c \in {" ", "\t", "\n"}

char_to_lowercase(c) == IF is_ascii_uppercase(c) THEN LowerCs[IndexOf(UpperCs, c)] ELSE c
char_to_uppercase(c) == IF c \in Range(LowerCs) THEN UpperCs[IndexOf(LowerCs, c)] ELSE c

RECURSIVE to_lowercase(_)
to_lowercase(s) ==
    IF s = <<>> THEN <<>> ELSE <<char_to_lowercase(Head(s))>> \o to_lowercase(Tail(s))

RECURSIVE trim_start(_)
trim_start(s) ==
    IF s # <<>> /\ is_whitespace(Head(s)) THEN trim_start(Tail(s)) ELSE s

RECURSIVE trim_end(_)
trim_end(s) ==
    IF s # <<>> /\ is_whitespace(s[Len(s)]) THEN trim_end(SubSeq(s, 1, Len(s) - 1)) ELSE s

trim(s) == trim_end(trim_start(s))

\* Ord for String: byte-wise lexicographic comparison.
RECURSIVE str_lt(_, _)
str_lt(a, b) ==
    IF b = <<>> THEN FALSE
    ELSE IF a = <<>> THEN TRUE
    ELSE IF Head(a) # Head(b) THEN byte_rank(Head(a)) < byte_rank(Head(b))
    ELSE str_lt(Tail(a), Tail(b))

\* Vec::sort, as an insertion sort under str_lt (the keys of a map are distinct).
RECURSIVE sort_insert(_, _)
sort_insert(sorted, k) ==
    IF sorted = <<>> THEN <<k>>
    ELSE IF str_lt(k, Head(sorted)) THEN <<k>> \o sorted
    ELSE <<Head(sorted)>> \o sort_insert(Tail(sorted), k)

RECURSIVE sort(_)
sort(keys) ==
    IF keys = <<>> THEN <<>> ELSE sort_insert(sort(SubSeq(keys, 1, Len(keys) - 1)), keys[Len(keys)])

----------------------------------------------------------------------------
(* String literals of the program *)

S_spotify       == <<"s","p","o","t","i","f","y">>
S_applemusic    == <<"a","p","p","l","e","m","u","s","i","c">>
S_apple_hyphen  == <<"a","p","p","l","e","-","m","u","s","i","c">>
S_apple_under   == <<"a","p","p","l","e","_","m","u","s","i","c">>
S_appleMusic    == <<"a","p","p","l","e","M","u","s","i","c">>
S_itunes        == <<"i","t","u","n","e","s">>
S_youtube       == <<"y","o","u","t","u","b","e">>
S_youtubemusic  == <<"y","o","u","t","u","b","e","m","u","s","i","c">>
S_youtube_hyphen == <<"y","o","u","t","u","b","e","-","m","u","s","i","c">>
S_youtube_under == <<"y","o","u","t","u","b","e","_","m","u","s","i","c">>
S_youtubeMusic  == <<"y","o","u","t","u","b","e","M","u","s","i","c">>
S_tidal         == <<"t","i","d","a","l">>
S_deezer        == <<"d","e","e","z","e","r">>
S_amazonmusic   == <<"a","m","a","z","o","n","m","u","s","i","c">>
S_amazon_hyphen == <<"a","m","a","z","o","n","-","m","u","s","i","c">>
S_amazon_under  == <<"a","m","a","z","o","n","_","m","u","s","i","c">>
S_amazonMusic   == <<"a","m","a","z","o","n","M","u","s","i","c">>
S_all           == <<"a","l","l">>
S_songlink      == <<"s","o","n","g","l","i","n","k">>
S_http          == <<"h","t","t","p">>
S_https         == <<"h","t","t","p","s">>
S_ws            == <<"w","s">>
S_wss           == <<"w","s","s">>
S_ftp           == <<"f","t","p">>
S_napster       == <<"n","a","p","s","t","e","r">>
L_AppleMusic    == <<"A","p","p","l","e"," ","M","u","s","i","c">>
L_iTunes        == <<"i","T","u","n","e","s">>
L_Spotify       == <<"S","p","o","t","i","f","y">>
L_YouTube       == <<"Y","o","u","T","u","b","e">>
L_YouTubeMusic  == <<"Y","o","u","T","u","b","e"," ","M","u","s","i","c">>
L_Tidal         == <<"T","i","d","a","l">>
L_Deezer        == <<"D","e","e","z","e","r">>
L_AmazonMusic   == <<"A","m","a","z","o","n"," ","M","u","s","i","c">>

----------------------------------------------------------------------------
(* flom-core: lib.rs *)

\* The position of the first element of `s` in the set `cs`, or Len(s) + 1.
find_char(s, cs) ==
    IF \E i \in 1..Len(s) : s[i] \in cs
    THEN CHOOSE i \in 1..Len(s) : s[i] \in cs /\ \A j \in 1..(i - 1) : s[j] \notin cs
    ELSE Len(s) + 1

RECURSIVE skip_slashes(_)
skip_slashes(s) == IF s # <<>> /\ Head(s) = "/" THEN skip_slashes(Tail(s)) ELSE s

\* url::Url::parse, with no base URL: Ok, or the ParseError it reports.
\*   - leading and trailing C0-control-or-space characters are stripped;
\*   - a scheme is an ASCII letter followed by letters, digits, '+', '-', '.', up to ':';
\*     without one the input is a relative reference: RelativeUrlWithoutBase;
\*   - a special scheme other than file needs a non-empty, well-formed host
\*     (and, if a port is given, a numeric one); any other scheme takes any rest.
url_parse(input) ==
    LET s == trim(input)
        colon == find_char(s, {":"})
        scheme_ok == /\ colon <= Len(s)
                     /\ colon > 1
                     /\ is_ascii_alphabetic(s[1])
                     /\ \A i \in 2..(colon - 1) :
                            is_ascii_alphabetic(s[i]) \/ is_ascii_digit(s[i]) \/ s[i] \in {"+", "-", "."}
        scheme == to_lowercase(SubSeq(s, 1, colon - 1))
        rest == skip_slashes(SubSeq(s, colon + 1, Len(s)))
        authority == SubSeq(rest, 1, find_char(rest, {"/"}) - 1)
        host == SubSeq(authority, 1, find_char(authority, {":"}) - 1)
        port == SubSeq(authority, Len(host) + 2, Len(authority))
    IN IF ~scheme_ok THEN Err("ParseError", <<"RelativeUrlWithoutBase">>)
       ELSE IF scheme \notin {S_http, S_https, S_ws, S_wss, S_ftp} THEN Ok(scheme)
       ELSE IF host = <<>> THEN Err("ParseError", <<"EmptyHost">>)
       ELSE IF \E i \in 1..Len(host) : is_whitespace(host[i]) \/ host[i] = "+"
            THEN Err("ParseError", <<"InvalidDomainCharacter">>)
       ELSE IF \E i \in 1..Len(port) : ~is_ascii_digit(port[i])
            THEN Err("ParseError", <<"InvalidPort">>)
       ELSE Ok(scheme)

\* pub fn validate_url: map_err(|err| InvalidInput(format!("invalid url: {err}")))
validate_url(u) ==
    LET parsed == url_parse(u) IN
    IF IsErr(parsed) THEN Err("InvalidInput", [fmt |-> "invalid url: {err}", arg |-> parsed.msg])
    ELSE Ok(<<>>)

----------------------------------------------------------------------------
(* flom-music: converter.rs *)

\* normalize_target matching the table without lower-casing the input first.
normalize_target_case_sensitive(input) ==
    LET normalized == trim(input) IN
    CASE normalized = S_spotify -> Some(S_spotify)
      [] normalized \in {S_applemusic, S_apple_hyphen, S_apple_under} -> Some(S_appleMusic)
      [] normalized = S_itunes -> Some(S_itunes)
      [] normalized = S_youtube -> Some(S_youtube)
      [] normalized \in {S_youtubemusic, S_youtube_hyphen, S_youtube_under} -> Some(S_youtubeMusic)
      [] normalized = S_tidal -> Some(S_tidal)
      [] normalized = S_deezer -> Some(S_deezer)
      [] normalized \in {S_amazonmusic, S_amazon_hyphen, S_amazon_under} -> Some(S_amazonMusic)
      [] OTHER -> None

\* normalize_target with a default arm that falls back to a platform.
normalize_target_defaulting(input) ==
    IF normalize_target_case_sensitive(to_lowercase(input)) # None
    THEN normalize_target_case_sensitive(to_lowercase(input))
    ELSE Some(S_spotify)

\* MusicConverter::normalize_target
normalize_target(input) ==
    LET normalized == to_lowercase(trim(input)) IN
    CASE normalized = S_spotify -> Some(S_spotify)
      [] normalized \in {S_applemusic, S_apple_hyphen, S_apple_under} -> Some(S_appleMusic)
      [] normalized = S_itunes -> Some(S_itunes)
      [] normalized = S_youtube -> Some(S_youtube)
      [] normalized \in {S_youtubemusic, S_youtube_hyphen, S_youtube_under} -> Some(S_youtubeMusic)
      [] normalized = S_tidal -> Some(S_tidal)
      [] normalized = S_deezer -> Some(S_deezer)
      [] normalized \in {S_amazonmusic, S_amazon_hyphen, S_amazon_under} -> Some(S_amazonMusic)
      [] OTHER -> None

\* The strings of the alias table and the keys it maps them to.
AliasTable == {S_spotify, S_applemusic, S_apple_hyphen, S_apple_under, S_itunes, S_youtube,
               S_youtubemusic, S_youtube_hyphen, S_youtube_under, S_tidal, S_deezer,
               S_amazonmusic, S_amazon_hyphen, S_amazon_under}
EightKeys == {S_spotify, S_appleMusic, S_itunes, S_youtube, S_youtubeMusic, S_tidal,
              S_deezer, S_amazonMusic}

\* HashMap<K, V>: a function from its keys.  A map the program iterates
\* (links_by_platform) also records the order in which this instance iterates its
\* keys; that order is unspecified (RandomState): any permutation of the keys.
HashMap(entries, iter) == [entries |-> entries, iter |-> iter]
map_get(entries, k) == IF k \in DOMAIN entries THEN Some(entries[k]) ELSE None
map_keys(m) == m.iter
Perms(S) == {p \in [1..Cardinality(S) -> S] : Range(p) = S}

\* struct OdesliResponse, as serde builds it from a response body: the body's two
\* objects become HashMaps, and `iter` is the order in which the new
\* links_by_platform instance will iterate its keys.
OdesliResponse(body, iter) ==
    [entity_unique_id |-> body.entityUniqueId,
     page_url |-> body.pageUrl,
     links_by_platform |-> HashMap(body.linksByPlatform, iter),
     entities_by_unique_id |-> body.entitiesByUniqueId]

\* StatusCode::is_success
is_success(status) == 200 <= status /\ status <= 299

\* response.text().await.unwrap_or_default(): the body read, or the empty String
\* when reading it failed.
text_or_default(body) == IF "broken" \in DOMAIN body THEN [raw |-> ""] ELSE body

\* The query parameters and headers of lines 26-40.  A parameter or header is
\* [name |-> n, value |-> v].
API_BASE == "https://api.song.link/v1-alpha.1/links"
odesli_headers == <<[name |-> "Accept", value |-> "application/json"],
                    [name |-> "User-Agent", value |-> "flom/0.1"]>>

\* odesli_request pushing the key whenever one is configured.
odesli_request_any_key(api_key, user_country, u) ==
    [method |-> "GET",
     base |-> API_BASE,
     query |-> <<[name |-> "url", value |-> u],
                 [name |-> "userCountry", value |-> user_country]>>
               \o (IF api_key # None THEN <<[name |-> "key", value |-> api_key.some]>>
                   ELSE <<>>),
     headers |-> odesli_headers]

\* OdesliClient::fetch_links, lines 26-40: the request that send() sends
odesli_request(api_key, user_country, u) ==
    [method |-> "GET",
     base |-> API_BASE,
     query |-> <<[name |-> "url", value |-> u],
                 [name |-> "userCountry", value |-> user_country]>>
               \o (IF api_key # None /\ trim(api_key.some) # <<>>
                   THEN <<[name |-> "key", value |-> api_key.some]>>
                   ELSE <<>>),
     headers |-> odesli_headers]

\* OdesliClient::fetch_links, lines 43-56: the result for what the exchange gave,
\* `reply` being [transport |-> cause] when send() failed and
\* [status |-> code, body |-> text] otherwise, the text [json |-> body] when it
\* deserializes as an OdesliResponse, [raw |-> text] when it does not, and
\* [broken |-> cause] when the body could not be read to its end.
odesli_fetch_links(reply, iter) ==
    IF "transport" \in DOMAIN reply
    THEN Err("Network", [fmt |-> "odesli request failed: {err}", arg |-> reply.transport])
    ELSE IF ~is_success(reply.status)
    THEN Err("Api", [fmt |-> "odesli error: status={status} body={body}",
                     arg |-> [status |-> reply.status, body |-> text_or_default(reply.body)]])
    ELSE IF "json" \notin DOMAIN reply.body
    THEN Err("Parse", [fmt |-> "odesli response parse failed: {err}", arg |-> reply.body])
    ELSE Ok(OdesliResponse(reply.body.json, iter))

\* entity_to_media with the artist and the album taken from each other's field.
entity_to_media_crossed(entity) ==
    [title |-> entity.title, artist |-> entity.album_name, album |-> entity.artist_name]

\* fn entity_to_media
entity_to_media(entity) ==
    [title |-> entity.title, artist |-> entity.artist_name, album |-> entity.album_name]

\* infer_source_platform without the url filter: the first entry iterated.
infer_source_platform_any_link(links, u) ==
    LET keys == map_keys(links) IN IF keys = <<>> THEN None ELSE Some(keys[1])

\* fn infer_source_platform: links.iter().find(|(_, link)| link.url == url)
\* The first entry, in the map's iteration order, whose url equals `u`.
infer_source_platform(links, u) ==
    LET keys == map_keys(links)
        hits == {i \in 1..Len(keys) : links.entries[keys[i]].url = u}
    IN IF hits = {} THEN None
       ELSE Some(keys[CHOOSE i \in hits : \A j \in hits : i <= j])

\* source_platform_of with the two sources in the other order: the url match
\* first, the entity's provider when no link matches.
source_platform_of_url_first(resp, source_url) ==
    LET source_entity == map_get(resp.entities_by_unique_id, resp.entity_unique_id)
        inferred == infer_source_platform(resp.links_by_platform, source_url)
    IN  IF inferred # None THEN inferred
        ELSE IF source_entity # None THEN source_entity.some.api_provider
        ELSE None

\* MusicConverter::convert_from_response, lines 68-75: the source platform
source_platform_of(resp, source_url) ==
    LET source_entity == map_get(resp.entities_by_unique_id, resp.entity_unique_id) IN
    IF source_entity # None /\ source_entity.some.api_provider # None
    THEN source_entity.some.api_provider
    ELSE infer_source_platform(resp.links_by_platform, source_url)

\* format!("target platform not available: {tkey}")
unsupported_target(tkey) ==
    Err("UnsupportedInput", [fmt |-> "target platform not available: {target_key}", arg |-> tkey])

\* convert_from_response building a shell result, with no target url, for a
\* target key the response has no link for, where the code returns the error.
convert_from_response_shell(resp, source_url, tkey) ==
    LET source_entity == map_get(resp.entities_by_unique_id, resp.entity_unique_id)
        target_link == map_get(resp.links_by_platform.entries, tkey)
        target_entity == IF target_link = None THEN None
                         ELSE map_get(resp.entities_by_unique_id, target_link.some.entity_unique_id)
    IN Ok([source_url |-> source_url,
           target_url |-> IF target_link = None THEN None ELSE Some(target_link.some.url),
           source_platform |-> source_platform_of(resp, source_url),
           target_platform |-> Some(tkey),
           source_info |-> IF source_entity = None THEN None
                           ELSE Some(entity_to_media(source_entity.some)),
           target_info |-> IF target_entity = None THEN None
                           ELSE Some(entity_to_media(target_entity.some)),
           warning |-> None])

\* MusicConverter::convert_from_response
convert_from_response(resp, source_url, tkey) ==
    LET source_entity == map_get(resp.entities_by_unique_id, resp.entity_unique_id)
        source_info == IF source_entity = None THEN None
                       ELSE Some(entity_to_media(source_entity.some))
        source_platform == source_platform_of(resp, source_url)
        target_link == map_get(resp.links_by_platform.entries, tkey)
    IN IF target_link = None THEN unsupported_target(tkey)
       ELSE LET target_entity ==
                    map_get(resp.entities_by_unique_id, target_link.some.entity_unique_id)
            IN Ok([source_url |-> source_url,
                   target_url |-> Some(target_link.some.url),
                   source_platform |-> source_platform,
                   target_platform |-> Some(tkey),
                   source_info |-> source_info,
                   target_info |-> IF target_entity = None THEN None
                                   ELSE Some(entity_to_media(target_entity.some)),
                   warning |-> None])

\* display_name without the arm of the last platform.
display_name_missing_arm(key) ==
    CASE key = S_appleMusic -> L_AppleMusic
      [] key = S_itunes -> L_iTunes
      [] key = S_spotify -> L_Spotify
      [] key = S_youtube -> L_YouTube
      [] key = S_youtubeMusic -> L_YouTubeMusic
      [] key = S_tidal -> L_Tidal
      [] key = S_deezer -> L_Deezer
      [] OTHER -> key

\* fn display_name
display_name(key) ==
    CASE key = S_appleMusic -> L_AppleMusic
      [] key = S_itunes -> L_iTunes
      [] key = S_spotify -> L_Spotify
      [] key = S_youtube -> L_YouTube
      [] key = S_youtubeMusic -> L_YouTubeMusic
      [] key = S_tidal -> L_Tidal
      [] key = S_deezer -> L_Deezer
      [] key = S_amazonMusic -> L_AmazonMusic
      [] OTHER -> key

\* MusicConverter::targets_from_response: one option per key, in iteration order
targets_from_response(resp) ==
    LET keys == map_keys(resp.links_by_platform) IN
    [i \in 1..Len(keys) |-> [key |-> keys[i], label |-> display_name(keys[i])]]

----------------------------------------------------------------------------
(* flom-config: lib.rs *)

\* For each resolver: `var` is what env::var returned for its variable, Ok(value)
\* or an error (the variable is not present, or its value is not Unicode), and
\* `file` is the field of the loaded FlomConfig.
S_US == <<"U","S">>
S_1 == <<"1">>
S_true == <<"t","r","u","e">>
S_yes == <<"y","e","s">>

\* fn resolve_odesli_key
resolve_odesli_key(var, file) ==
    IF IsOk(var) /\ trim(var.ok) # <<>> THEN Some(var.ok) ELSE file

\* resolve_default_target taking the file's value when there is one.
resolve_default_target_file_first(var, file) ==
    IF file # None THEN file
    ELSE IF IsOk(var) /\ trim(var.ok) # <<>> THEN Some(var.ok) ELSE None

\* fn resolve_default_target
resolve_default_target(var, file) ==
    IF IsOk(var) /\ trim(var.ok) # <<>> THEN Some(var.ok) ELSE file

\* fn resolve_user_country
resolve_user_country(var, file) ==
    IF IsOk(var) /\ trim(var.ok) # <<>> THEN trim(var.ok)
    ELSE IF file # None THEN file.some ELSE S_US

\* fn resolve_simple_output
resolve_simple_output(var, file) ==
    IF IsOk(var)
    THEN LET normalized == to_lowercase(var.ok)
         IN  Some(normalized = S_1 \/ normalized = S_true \/ normalized = S_yes)
    ELSE file

----------------------------------------------------------------------------
(* flom-shorten: lib.rs *)

\* ShortenClient::shorten, lines 27-48: the result for what the exchange gave; a
\* body that deserializes is [json |-> [shorturl |-> .., errormessage |-> ..]].
shorten_result(reply) ==
    IF "transport" \in DOMAIN reply
    THEN Err("Network", [fmt |-> "shorten request failed: {err}", arg |-> reply.transport])
    ELSE IF ~is_success(reply.status)
    THEN Err("Api", [fmt |-> "shorten error: status={status} body={body}",
                     arg |-> [status |-> reply.status, body |-> text_or_default(reply.body)]])
    ELSE IF "json" \notin DOMAIN reply.body
    THEN Err("Parse", [fmt |-> "shorten response parse failed: {err}", arg |-> reply.body])
    ELSE IF reply.body.json.errormessage # None
    THEN Err("Api", [fmt |-> "{error_message}", arg |-> reply.body.json.errormessage.some])
    ELSE IF reply.body.json.shorturl = None
    THEN Err("Api", [fmt |-> "shorten response missing shorturl", arg |-> <<>>])
    ELSE Ok(reply.body.json.shorturl.some)

----------------------------------------------------------------------------
(* flom: main.rs *)

\* process_url, lines 252-254: explicit_target.or_else(|| default_target)
chosen_target(explicit, default) == IF explicit # None THEN explicit ELSE default

\* interpret_target comparing the target as given with "all" and "songlink".
interpret_target_exact(target) ==
    IF target = S_all THEN [ret |-> Ok(S_all), steps |-> <<>>]
    ELSE IF target = S_songlink THEN [ret |-> Ok(S_songlink), steps |-> <<>>]
    ELSE LET key == normalize_target(target) IN
         [ret |-> IF key = None
                  THEN Err("InvalidInput", [fmt |-> "unknown target: {target}", arg |-> target])
                  ELSE Ok(key.some),
          steps |-> <<"normalize_target">>]

\* interpret_target passing a target it does not recognize on to the conversion.
interpret_target_deferred(target) ==
    LET normalized == to_lowercase(trim(target)) IN
    IF normalized = S_all THEN [ret |-> Ok(S_all), steps |-> <<>>]
    ELSE IF normalized = S_songlink THEN [ret |-> Ok(S_songlink), steps |-> <<>>]
    ELSE LET key == normalize_target(target) IN
         [ret |-> IF key = None THEN Ok(target) ELSE Ok(key.some),
          steps |-> <<"normalize_target">>]

\* interpret_target handing on the alias as the user spelled it, trimmed and
\* lower-cased, in place of the canonical key.
interpret_target_alias(target) ==
    LET normalized == to_lowercase(trim(target)) IN
    IF normalized = S_all THEN [ret |-> Ok(S_all), steps |-> <<>>]
    ELSE IF normalized = S_songlink THEN [ret |-> Ok(S_songlink), steps |-> <<>>]
    ELSE LET key == normalize_target(target) IN
         [ret |-> IF key = None
                  THEN Err("InvalidInput", [fmt |-> "unknown target: {target}", arg |-> target])
                  ELSE Ok(normalized),
          steps |-> <<"normalize_target">>]

\* process_url, lines 257-265: the target key for a target string.  `steps` lists
\* the calls made.
interpret_target(target) ==
    LET normalized == to_lowercase(trim(target)) IN
    IF normalized = S_all THEN [ret |-> Ok(S_all), steps |-> <<>>]
    ELSE IF normalized = S_songlink THEN [ret |-> Ok(S_songlink), steps |-> <<>>]
    ELSE LET key == normalize_target(target) IN
         [ret |-> IF key = None
                  THEN Err("InvalidInput", [fmt |-> "unknown target: {target}", arg |-> target])
                  ELSE Ok(key.some),
          steps |-> <<"normalize_target">>]

\* options.sort_by(|a, b| a.label.cmp(&b.label)): a stable sort on the labels.
RECURSIVE insert_by_label(_, _)
insert_by_label(sorted, opt) ==
    IF sorted = <<>> THEN <<opt>>
    ELSE IF str_lt(opt.label, Head(sorted).label) THEN <<opt>> \o sorted
    ELSE <<Head(sorted)>> \o insert_by_label(Tail(sorted), opt)

RECURSIVE sort_by_label(_)
sort_by_label(options) ==
    IF options = <<>> THEN <<>>
    ELSE insert_by_label(sort_by_label(SubSeq(options, 1, Len(options) - 1)), options[Len(options)])

L_AllAvailable == <<"A","l","l"," ","a","v","a","i","l","a","b","l","e">>
L_SonglinkPage == <<"S","o","n","g","l","i","n","k"," ","p","a","g","e">>

\* prompt_target, lines 302-307: the labels shown, in order.
prompt_labels(resp) ==
    LET options == sort_by_label(targets_from_response(resp)) IN
    [i \in 1..Len(options) |-> options[i].label] \o <<L_AllAvailable, L_SonglinkPage>>

\* fn prompt_target.  `interaction` is what Select::interact returned: Ok(index),
\* the index counted from 0, or an error.
prompt_target(resp, interaction) ==
    LET options == sort_by_label(targets_from_response(resp))
        labels == prompt_labels(resp)
    IN IF IsErr(interaction)
       THEN Err("InvalidInput", [fmt |-> "selection failed: {err}", arg |-> interaction.msg])
       ELSE IF interaction.ok = Len(labels) - 2 THEN Ok(S_all)
       ELSE IF interaction.ok = Len(labels) - 1 THEN Ok(S_songlink)
       ELSE Ok(options[interaction.ok + 1].key)

\* process_url, lines 271-279: the loop of the All selection over the sorted keys;
\* the `?` returns at the first conversion that fails.
RECURSIVE convert_each(_, _, _)
convert_each(resp, u, keys) ==
    IF keys = <<>> THEN [ret |-> Ok(0), printed |-> <<>>, steps |-> <<>>]
    ELSE LET result == convert_from_response(resp, u, Head(keys)) IN
         IF IsErr(result)
         THEN [ret |-> result, printed |-> <<>>, steps |-> <<"convert_from_response">>]
         ELSE LET rest == convert_each(resp, u, Tail(keys)) IN
              [ret |-> IF IsOk(rest.ret) THEN Ok(rest.ret.ok + 1) ELSE rest.ret,
               printed |-> <<result.ok>> \o rest.printed,
               steps |-> <<"convert_from_response", "print_result">> \o rest.steps]

\* all_keys without the sort: the keys as the map iterates them.
all_keys_unsorted(resp) == map_keys(resp.links_by_platform)

\* all_keys listing platforms of its own choice, whatever the response holds.
all_keys_fixed(resp) == <<S_spotify, S_tidal>>

\* all_keys keeping only the keys normalize_target can return.
all_keys_recognized(resp) ==
    LET recognized(k) == k \in EightKeys
    IN  SelectSeq(sort(map_keys(resp.links_by_platform)), recognized)

\* process_url, line 272-273: the keys of the response, collected and sorted
all_keys(resp) == sort(map_keys(resp.links_by_platform))

\* process_url, lines 283-291: the result of the songlink selection
songlink_result(resp, u) ==
    [source_url |-> u,
     target_url |-> Some(resp.page_url),
     source_platform |-> None,
     target_platform |-> Some(S_songlink),
     source_info |-> None,
     target_info |-> None,
     warning |-> None]

\* convert_target looking "songlink" up in links_by_platform like a platform key.
convert_target_songlink_lookup(resp, u, tkey) ==
    IF tkey = S_all THEN convert_each(resp, u, sort(map_keys(resp.links_by_platform)))
    ELSE LET result == convert_from_response(resp, u, tkey) IN
         IF IsErr(result)
         THEN [ret |-> result, printed |-> <<>>, steps |-> <<"convert_from_response">>]
         ELSE [ret |-> Ok(1), printed |-> <<result.ok>>,
               steps |-> <<"convert_from_response", "print_result">>]

\* process_url, lines 270-298: what is returned and printed for a target key
convert_target(resp, u, tkey) ==
    IF tkey = S_all THEN convert_each(resp, u, all_keys(resp))
    ELSE IF tkey = S_songlink
    THEN [ret |-> Ok(1), printed |-> <<songlink_result(resp, u)>>, steps |-> <<"print_result">>]
    ELSE LET result == convert_from_response(resp, u, tkey) IN
         IF IsErr(result)
         THEN [ret |-> result, printed |-> <<>>, steps |-> <<"convert_from_response">>]
         ELSE [ret |-> Ok(1), printed |-> <<result.ok>>,
               steps |-> <<"convert_from_response", "print_result">>]

----------------------------------------------------------------------------
(* Calls of the pure functions on inputs drawn from bounded sets *)

Pending == [pending |-> TRUE]
NoProbe == [fn |-> "none"]

\* main has not started: the variables of the batch loop at rest.
MainOff ==
    /\ urls = <<>>
    /\ shorten_mode = FALSE
    /\ explicit_target = None
    /\ default_target = None
    /\ pc = "off"
    /\ url = None
    /\ response = None
    /\ target_key = None
    /\ selected = None
    /\ trace = <<>>
    /\ out = <<>>
    /\ last = None
    /\ success = 0
    /\ failed = 0
    /\ summary = None
    /\ inputs = <<>>
    /\ processed = <<>>
    /\ requests = <<>>
    /\ outcomes = <<>>
    /\ emitted = 0

MainVars == <<urls, shorten_mode, explicit_target, default_target, pc, url, response,
              target_key, selected, trace, out, last, success, failed, summary, inputs,
              processed, requests, outcomes, emitted>>

S_apple  == <<"a","p","p","l","e">>
S_music  == <<"m","u","s","i","c">>
S_amazon == <<"a","m","a","z","o","n">>
S_bogus  == <<"b","o","g","u","s">>

\* The aliases of the table, as their words.
Aliases == {<<S_spotify>>, <<S_itunes>>, <<S_youtube>>, <<S_tidal>>, <<S_deezer>>,
            <<S_apple, S_music>>, <<S_youtube, S_music>>, <<S_amazon, S_music>>}
Casings == {"lower", "UPPER", "Title", "aLT"}
Separators == {<<>>, <<"-">>, <<"_">>, <<" ">>}
Paddings == {<<<<>>, <<>>>>, <<<<" ">>, <<" ", " ">>>>, <<<<"\t">>, <<"\n">>>>, <<<<>>, <<" ">>>>}

RECURSIVE to_uppercase(_)
to_uppercase(s) ==
    IF s = <<>> THEN <<>> ELSE <<char_to_uppercase(Head(s))>> \o to_uppercase(Tail(s))

RECURSIVE alternate(_, _)
alternate(s, up) ==
    IF s = <<>> THEN <<>>
    ELSE <<IF up THEN char_to_uppercase(Head(s)) ELSE Head(s)>> \o alternate(Tail(s), ~up)

Cased(w, casing) ==
    CASE casing = "lower" -> w
      [] casing = "UPPER" -> to_uppercase(w)
      [] casing = "Title" -> <<char_to_uppercase(Head(w))>> \o Tail(w)
      [] casing = "aLT" -> alternate(w, FALSE)

\* The way a user may write alias `words`: each word in a casing, the words joined
\* by `sep`, the whole between the two paddings `pad`.
Variant(words, c1, c2, sep, pad) ==
    pad[1] \o (IF Len(words) = 1 THEN Cased(words[1], c1)
               ELSE Cased(words[1], c1) \o sep \o Cased(words[2], c2)) \o pad[2]

\* The alias as the table spells it first: lower case, no separator, no padding.
BaseForm(words) == IF Len(words) = 1 THEN words[1] ELSE words[1] \o words[2]

NotAliases == {<<>>, <<" ">>, S_bogus, S_all, S_songlink, S_napster, S_apple, S_music,
               S_apple \o <<"-", "-">> \o S_music, S_apple \o <<".">> \o S_music,
               S_spotify \o <<"1">>, <<"s", " ">> \o Tail(S_spotify)}

InitNorm ==
    /\ MainOff
    /\ \/ \E words \in Aliases, c1 \in Casings, c2 \in Casings, sep \in Separators, pad \in Paddings :
            /\ Len(words) = 1 => (sep = <<>> /\ c2 = c1)
            /\ probe = [fn |-> "normalize_target", alias |-> Some(words), sep |-> sep,
                        input |-> Variant(words, c1, c2, sep, pad), output |-> Pending]
       \/ \E str \in NotAliases :
            probe = [fn |-> "normalize_target", alias |-> None, sep |-> <<>>,
                     input |-> str, output |-> Pending]

CallNormalizeTarget ==
    /\ probe.fn = "normalize_target"
    /\ probe.output = Pending
    /\ probe' = [probe EXCEPT !.output = Some(normalize_target(probe.input))]
    /\ UNCHANGED MainVars

NextNorm == CallNormalizeTarget

SpecNorm == InitNorm /\ [][NextNorm]_vars

\* Response bodies of the resolution service.
U1 == <<"h","t","t","p",":","/","/","a","/","1">>
U2 == <<"h","t","t","p","s",":","/","/","b","/","2">>
U_page == <<"h","t","t","p","s",":","/","/","s","/","1">>

EntityIds == {"e1", "e2"}
Ent_itunes == [id |-> Some("id1"), title |-> Some("Test Song"), artist_name |-> Some("Test Artist"),
               album_name |-> None, api_provider |-> Some(S_itunes)]
Ent_anonymous == [id |-> None, title |-> Some("Test Song"), artist_name |-> None,
                  album_name |-> Some("Test Album"), api_provider |-> None]
Ent_untitled == [id |-> Some("id3"), title |-> None, artist_name |-> Some("Other Artist"),
                 album_name |-> Some("Test Album"), api_provider |-> Some(S_spotify)]
EntityPool == {Ent_itunes, Ent_anonymous, Ent_untitled}
LinkPool == {[entity_unique_id |-> "e1", url |-> U1],
             [entity_unique_id |-> "e2", url |-> U1],
             [entity_unique_id |-> "e2", url |-> U2]}
PlatformKeys == {S_itunes, S_spotify, S_tidal}

Maps(keys, values) == UNION {[ks -> values] : ks \in SUBSET keys}

Bodies(keys) ==
    [entityUniqueId : EntityIds,
     pageUrl : {U_page},
     linksByPlatform : Maps(keys, LinkPool),
     entitiesByUniqueId : Maps(EntityIds, EntityPool)]

\* Two OdesliResponse instances deserialized from the same body, and one call of
\* convert_from_response on each with the same source URL and target key.
InitConv ==
    /\ MainOff
    /\ \E body \in Bodies(PlatformKeys), src \in {U1, U2}, tkey \in PlatformKeys \cup {S_deezer} :
            probe = [fn |-> "convert_from_response", body |-> body, source_url |-> src,
                     target_key |-> tkey, results |-> <<Pending, Pending>>]

CallConvertFromResponse(i) ==
    /\ probe.fn = "convert_from_response"
    /\ probe.results[i] = Pending
    /\ \E iter \in Perms(DOMAIN probe.body.linksByPlatform) :
            probe' = [probe EXCEPT !.results[i] =
                        convert_from_response(OdesliResponse(probe.body, iter),
                                              probe.source_url, probe.target_key)]
    /\ UNCHANGED MainVars

NextConv == \E i \in {1, 2} : CallConvertFromResponse(i)

SpecConv == InitConv /\ [][NextConv]_vars

\* One call of targets_from_response on a response whose linksByPlatform holds
\* at most MaxKeys of the keys below: the eight keys display_name labels, and two
\* that it does not.
MaxKeys == 2
TargetKeyPool == {S_appleMusic, S_itunes, S_spotify, S_youtube, S_youtubeMusic, S_tidal,
                  S_deezer, S_amazonMusic, S_napster, S_applemusic}

InitTargets ==
    /\ MainOff
    /\ \E ks \in {x \in SUBSET TargetKeyPool : Cardinality(x) <= MaxKeys} :
       \E iter \in Perms(ks) :
            probe = [fn |-> "targets_from_response",
                     body |-> [entityUniqueId |-> "e1", pageUrl |-> U_page,
                               linksByPlatform |->
                                    [k \in ks |-> [entity_unique_id |-> "e1", url |-> U1]],
                               entitiesByUniqueId |-> << >>],
                     iter |-> iter, output |-> Pending]

CallTargetsFromResponse ==
    /\ probe.fn = "targets_from_response"
    /\ probe.output = Pending
    /\ probe' = [probe EXCEPT !.output =
                    Some(targets_from_response(OdesliResponse(probe.body, probe.iter)))]
    /\ UNCHANGED MainVars

NextTargets == CallTargetsFromResponse

SpecTargets == InitTargets /\ [][NextTargets]_vars

\* Two calls of convert_from_response on one OdesliResponse instance, with the
\* same source URL and two different target keys.
TargetKeyPairs == {<<S_itunes, S_spotify>>, <<S_itunes, S_tidal>>, <<S_spotify, S_tidal>>}

InitSource ==
    /\ MainOff
    /\ \E body \in Bodies(PlatformKeys), src \in {U1, U2}, tkeys \in TargetKeyPairs :
       \E iter \in Perms(DOMAIN body.linksByPlatform) :
            probe = [fn |-> "source_platform", body |-> body, iter |-> iter,
                     source_url |-> src, target_keys |-> tkeys,
                     results |-> <<Pending, Pending>>]

CallConvertForTarget(i) ==
    /\ probe.fn = "source_platform"
    /\ probe.results[i] = Pending
    /\ probe' = [probe EXCEPT !.results[i] =
                    convert_from_response(OdesliResponse(probe.body, probe.iter),
                                          probe.source_url, probe.target_keys[i])]
    /\ UNCHANGED MainVars

NextSource == \E i \in {1, 2} : CallConvertForTarget(i)

SpecSource == InitSource /\ [][NextSource]_vars

----------------------------------------------------------------------------
(* main: the batch loop over the input URLs *)

MaxBatch == 2

U_not_a_url == <<"n","o","t","-","a","-","u","r","l">>
U_no_host == <<"h","t","t","p","s",":","/","/">>
InputUrls == {U1, U2, U_not_a_url, U_no_host}

ExplicitTargets == {None, Some(<<>>), Some(S_all), Some(<<" ", "A", "l", "l", "\n">>),
                    Some(to_uppercase(S_songlink)),
                    Some(<<" ">> \o Cased(S_apple_hyphen, "Title") \o <<" ">>),
                    Some(S_bogus)}
DefaultTargets == {None, Some(<<" ">>), Some(S_tidal), Some(Cased(S_songlink, "Title")),
                   Some(S_napster)}

\* The link the service returns for a platform.
BatchLink(k) == [entity_unique_id |-> IF k = S_itunes THEN "e1" ELSE "e2",
                 url |-> <<"h","t","t","p",":","/","/">> \o k]
BatchKeySets == {{}, {S_tidal}, {S_appleMusic, S_spotify}, {S_napster, S_spotify},
                 {S_itunes, S_spotify, S_tidal}}
BatchBodies ==
    {[entityUniqueId |-> "e1",
      pageUrl |-> U_page,
      linksByPlatform |-> [k \in ks |-> BatchLink(k)],
      entitiesByUniqueId |-> [e \in {"e1"} |-> Ent_itunes]] : ks \in BatchKeySets}

\* What the exchange with the resolution service can give.
OdesliReplies ==
    {[transport |-> "connection reset"],
     [status |-> 429, body |-> [raw |-> "Too Many Requests"]],
     [status |-> 200, body |-> [raw |-> "<html>"]],
     [status |-> 200, body |-> [broken |-> "connection reset"]]}
    \cup {[status |-> 200, body |-> [json |-> b]] : b \in BatchBodies}

\* What the exchange with the shortening service can give.
ShortenReplies ==
    {[transport |-> "connection reset"],
     [status |-> 502, body |-> [raw |-> "Bad Gateway"]],
     [status |-> 200, body |-> [raw |-> "<html>"]],
     [status |-> 502, body |-> [broken |-> "connection reset"]],
     [status |-> 200, body |-> [json |-> [shorturl |-> Some("https://is.gd/x"), errormessage |-> None]]],
     [status |-> 200, body |-> [json |-> [shorturl |-> None, errormessage |-> Some("blocked")]]],
     [status |-> 200, body |-> [json |-> [shorturl |-> None, errormessage |-> None]]]}

\* The responses fetch_links can return in a batch.
BatchResponses ==
    {OdesliResponse(b, iter) : <<b, iter>> \in
        UNION {{b} \X Perms(DOMAIN b.linksByPlatform) : b \in BatchBodies}}

\* The calls process_url makes on the inputs of a batch, each evaluated once:
\* validate_url, the match of lines 257-265, prompt_target, and lines 270-298.
Validated == [u \in InputUrls |-> validate_url(u)]
Interpreted ==
    [t \in {o.some : o \in (ExplicitTargets \cup DefaultTargets) \ {None}} |->
        interpret_target(t)]
PromptLabels == [resp \in BatchResponses |-> prompt_labels(resp)]
Interactions(resp) ==
    {Ok(i) : i \in 0..(Len(PromptLabels[resp]) - 1)} \cup {Err("io", "not a terminal")}
Prompted ==
    [resp \in BatchResponses |-> [x \in Interactions(resp) |-> prompt_target(resp, x)]]
\* The target keys process_url can hold at line 270: what the match of lines
\* 257-265 or prompt_target returned.
BatchTargetKeys ==
    {Interpreted[t].ret.ok : t \in {x \in DOMAIN Interpreted : IsOk(Interpreted[x].ret)}}
    \cup UNION {{Prompted[resp][x].ok : x \in {y \in Interactions(resp) : IsOk(y)}} :
                    resp \in BatchResponses}
Converted ==
    [resp \in BatchResponses |->
        [u \in InputUrls |-> [tkey \in BatchTargetKeys |-> convert_target(resp, u, tkey)]]]

Batches == UNION {[1..n -> InputUrls] : n \in 1..MaxBatch}

\* main after the inputs are gathered and the configuration is resolved (lines
\* 56-97): a non-empty list of URLs (an empty one exits at line 80).  run_shorten
\* reads neither target, so they are left unset in that mode.
Init ==
    /\ probe = NoProbe
    /\ urls \in Batches
    /\ shorten_mode \in BOOLEAN
    /\ explicit_target \in ExplicitTargets
    /\ default_target \in DefaultTargets
    /\ shorten_mode => (explicit_target = None /\ default_target = None)
    /\ pc = "loop"
    /\ url = None
    /\ response = None
    /\ target_key = None
    /\ selected = None
    /\ trace = <<>>
    /\ out = <<>>
    /\ last = None
    /\ success = 0
    /\ failed = 0
    /\ summary = None
    /\ inputs = urls
    /\ processed = <<>>
    /\ requests = <<>>
    /\ outcomes = <<>>
    /\ emitted = 0

Config == <<shorten_mode, explicit_target, default_target, inputs, probe>>

\* Return counting one success for each URL that gave Ok, whatever its count.
Return_counting_urls(ret) ==
    /\ last' = Some(ret)
    /\ processed' = Append(processed, url.some)
    /\ outcomes' = Append(outcomes, IF IsOk(ret) THEN "ok" ELSE "err")
    /\ IF IsOk(ret)
       THEN success' = success + 1 /\ failed' = failed
       ELSE failed' = failed + 1 /\ success' = success
    /\ pc' = "loop"

\* Return with the error propagated out of main by `?`: the loop is left.
Return_propagating(ret) ==
    /\ last' = Some(ret)
    /\ processed' = Append(processed, url.some)
    /\ outcomes' = Append(outcomes, IF IsOk(ret) THEN "ok" ELSE "err")
    /\ IF IsOk(ret)
       THEN /\ success' = success + (IF shorten_mode THEN 1 ELSE ret.ok)
            /\ failed' = failed
            /\ pc' = "loop"
       ELSE /\ failed' = failed + 1
            /\ success' = success
            /\ pc' = "exit"

\* main, lines 108-114 (run_shorten, 367-376): the match on what the call returned.
\* process_url returns the number of results it printed; shorten one short URL.
Return(ret) ==
    /\ last' = Some(ret)
    /\ processed' = Append(processed, url.some)
    /\ outcomes' = Append(outcomes, IF IsOk(ret) THEN "ok" ELSE "err")
    /\ IF IsOk(ret)
       THEN success' = success + (IF shorten_mode THEN 1 ELSE ret.ok) /\ failed' = failed
       ELSE failed' = failed + 1 /\ success' = success
    /\ pc' = "loop"

\* NextUrl not awaiting the call for the URL before: the next URL is taken while
\* the request of the last one is still out.
NextUrl_overlapping ==
    /\ pc \in {"loop", "await"}
    /\ urls # <<>>
    /\ url' = Some(Head(urls))
    /\ urls' = Tail(urls)
    /\ response' = None
    /\ target_key' = None
    /\ selected' = None
    /\ trace' = <<>>
    /\ out' = <<>>
    /\ last' = None
    /\ pc' = "validate"
    /\ UNCHANGED <<Config, emitted, requests, success, failed, processed, outcomes, summary>>

\* main, line 99 (run_shorten, 366): the loop takes the next URL
NextUrl ==
    /\ pc = "loop"
    /\ urls # <<>>
    /\ url' = Some(Head(urls))
    /\ urls' = Tail(urls)
    /\ response' = None
    /\ target_key' = None
    /\ selected' = None
    /\ trace' = <<>>
    /\ out' = <<>>
    /\ last' = None
    /\ pc' = "validate"
    /\ UNCHANGED <<Config, emitted, requests, success, failed, processed, outcomes, summary>>

\* Validate with the target string examined first: a target that is not
\* recognized is refused before the URL is looked at.
Validate_target_first ==
    /\ pc = "validate"
    /\ LET chosen == chosen_target(explicit_target, default_target)
           valid == Validated[url.some]
       IN IF chosen # None /\ IsErr(Interpreted[chosen.some].ret)
          THEN trace' = Append(trace, "normalize_target") /\ Return(Interpreted[chosen.some].ret)
          ELSE /\ trace' = Append(trace, "validate_url")
               /\ IF IsErr(valid)
                  THEN Return(valid)
                  ELSE pc' = "send" /\ UNCHANGED <<last, success, failed, processed, outcomes>>
    /\ UNCHANGED <<Config, emitted, requests, selected, urls, url, response, target_key, out,
                   summary>>

\* Validate with the result of validate_url dropped: the request is sent anyway.
Validate_unchecked ==
    /\ pc = "validate"
    /\ trace' = Append(trace, "validate_url")
    /\ pc' = "send"
    /\ UNCHANGED <<Config, emitted, requests, selected, urls, url, response, target_key, out, last,
                   success, failed, processed, outcomes, summary>>

\* MusicConverter::fetch_links, line 33 (ShortenClient::shorten, line 20)
Validate ==
    /\ pc = "validate"
    /\ trace' = Append(trace, "validate_url")
    /\ LET valid == Validated[url.some] IN
       IF IsErr(valid)
       THEN Return(valid)
       ELSE pc' = "send" /\ UNCHANGED <<last, success, failed, processed, outcomes>>
    /\ UNCHANGED <<Config, emitted, requests, selected, urls, url, response, target_key, out, summary>>

\* OdesliClient::fetch_links, lines 35-42 (ShortenClient::shorten, 21-26): send()
Send ==
    /\ pc = "send"
    /\ trace' = Append(trace, "send")
    /\ requests' = Append(requests, url.some)
    /\ pc' = "await"
    /\ UNCHANGED <<Config, emitted, selected, urls, url, response, target_key, out, last, success,
                   failed, processed, outcomes, summary>>

\* ReceiveLinks with one more attempt after a failure.
ReceiveLinks_retrying ==
    /\ pc = "await"
    /\ ~shorten_mode
    /\ \E reply \in OdesliReplies :
         \E iter \in IF "status" \in DOMAIN reply /\ "json" \in DOMAIN reply.body
                     THEN Perms(DOMAIN reply.body.json.linksByPlatform) ELSE {<<>>} :
            LET fetched == odesli_fetch_links(reply, iter) IN
            IF IsErr(fetched) /\ Len(trace) < 3
            THEN pc' = "send" /\ UNCHANGED <<response, last, success, failed, processed, outcomes>>
            ELSE IF IsErr(fetched)
            THEN Return(fetched) /\ UNCHANGED response
            ELSE /\ response' = Some(fetched.ok)
                 /\ pc' = "target"
                 /\ UNCHANGED <<last, success, failed, processed, outcomes>>
    /\ UNCHANGED <<Config, emitted, requests, selected, urls, url, target_key, trace, out, summary>>

\* OdesliClient::fetch_links, lines 43-56, back in process_url at line 251
ReceiveLinks ==
    /\ pc = "await"
    /\ ~shorten_mode
    /\ \E reply \in OdesliReplies :
         \E iter \in IF "status" \in DOMAIN reply /\ "json" \in DOMAIN reply.body
                     THEN Perms(DOMAIN reply.body.json.linksByPlatform) ELSE {<<>>} :
            LET fetched == odesli_fetch_links(reply, iter) IN
            IF IsErr(fetched)
            THEN Return(fetched) /\ UNCHANGED response
            ELSE /\ response' = Some(fetched.ok)
                 /\ pc' = "target"
                 /\ UNCHANGED <<last, success, failed, processed, outcomes>>
    /\ UNCHANGED <<Config, emitted, requests, selected, urls, url, target_key, trace, out, summary>>

\* ShortenClient::shorten, lines 27-48, back in run_shorten
ReceiveShort ==
    /\ pc = "await"
    /\ shorten_mode
    /\ \E reply \in ShortenReplies :
            /\ Return(shorten_result(reply))
            /\ emitted' = emitted + (IF IsOk(shorten_result(reply)) THEN 1 ELSE 0)
    /\ UNCHANGED <<Config, requests, selected, urls, url, response, target_key, trace, out, summary>>

\* process_url, lines 252-265: a target was given, or configured
InterpretTarget ==
    /\ pc = "target"
    /\ chosen_target(explicit_target, default_target) # None
    /\ LET it == Interpreted[chosen_target(explicit_target, default_target).some] IN
       /\ trace' = trace \o it.steps
       /\ IF IsErr(it.ret)
          THEN Return(it.ret) /\ UNCHANGED target_key
          ELSE /\ target_key' = Some(it.ret.ok)
               /\ pc' = "convert"
               /\ UNCHANGED <<last, success, failed, processed, outcomes>>
    /\ UNCHANGED <<Config, emitted, requests, selected, urls, url, response, out, summary>>

\* process_url, lines 266-267: no target, the user is asked
PromptTarget ==
    /\ pc = "target"
    /\ chosen_target(explicit_target, default_target) = None
    /\ trace' = Append(trace, "prompt_target")
    /\ \E interaction \in Interactions(response.some) :
         LET chosen == Prompted[response.some][interaction] IN
         IF IsErr(chosen)
         THEN Return(chosen) /\ UNCHANGED <<target_key, selected>>
         ELSE /\ selected' = Some(PromptLabels[response.some][interaction.ok + 1])
              /\ target_key' = Some(chosen.ok)
              /\ pc' = "convert"
              /\ UNCHANGED <<last, success, failed, processed, outcomes>>
    /\ UNCHANGED <<Config, emitted, requests, urls, url, response, out, summary>>

\* process_url, lines 270-298
Convert ==
    /\ pc = "convert"
    /\ LET c == Converted[response.some][url.some][target_key.some] IN
       /\ out' = c.printed
       /\ emitted' = emitted + Len(c.printed)
       /\ trace' = trace \o c.steps
       /\ Return(c.ret)
    /\ UNCHANGED <<Config, requests, selected, urls, url, response, target_key, summary>>

\* main, line 117 (run_shorten, 379): print_summary(success + failed, success, failed)
PrintSummary ==
    /\ pc = "loop"
    /\ urls = <<>>
    /\ summary' = Some([total |-> success + failed, success |-> success, failed |-> failed])
    /\ pc' = "done"
    /\ UNCHANGED <<Config, emitted, requests, selected, urls, url, response, target_key, trace, out,
                   last, success, failed, processed, outcomes>>

Next ==
    \/ NextUrl
    \/ Validate
    \/ Send
    \/ ReceiveLinks
    \/ ReceiveShort
    \/ InterpretTarget
    \/ PromptTarget
    \/ Convert
    \/ PrintSummary

Spec == Init /\ [][Next]_vars

\* main runs on one task and awaits each call in turn: a step that can be taken
\* is taken, every awaited exchange ending with a reply or a transport failure.
FairSpec == Spec /\ WF_vars(Next)

----------------------------------------------------------------------------
(* One call of OdesliClient::fetch_links *)

K_secret == <<"k","1">>
ApiKeys == {None, Some(<<>>), Some(<<" ", " ">>), Some(K_secret),
            Some(<<" ">> \o K_secret \o <<"\n">>)}
S_JP == <<"J","P">>
Countries == {S_US, S_JP}
Statuses == {200, 204, 299, 300, 404, 429, 500}
FetchReplies ==
    {[transport |-> "dns error"], [transport |-> "connection reset"]}
    \cup [status : Statuses,
          body : {[raw |-> ""], [raw |-> "<html>"], [broken |-> "connection reset"]}
                 \cup {[json |-> b] : b \in BatchBodies}]

InitFetch ==
    /\ MainOff
    /\ \E key \in ApiKeys, country \in Countries, u \in {U1, U2}, reply \in FetchReplies :
            probe = [fn |-> "fetch_links", api_key |-> key, user_country |-> country,
                     source_url |-> u, reply |-> reply, request |-> Pending,
                     output |-> Pending]

\* The call: the request is built and sent, and the reply becomes the result.
CallFetchLinks ==
    /\ probe.fn = "fetch_links"
    /\ probe.output = Pending
    /\ \E iter \in IF "status" \in DOMAIN probe.reply /\ "json" \in DOMAIN probe.reply.body
                    THEN Perms(DOMAIN probe.reply.body.json.linksByPlatform) ELSE {<<>>} :
            probe' = [probe EXCEPT
                        !.request = odesli_request(probe.api_key, probe.user_country,
                                                   probe.source_url),
                        !.output = odesli_fetch_links(probe.reply, iter)]
    /\ UNCHANGED MainVars

NextFetch == CallFetchLinks

SpecFetch == InitFetch /\ [][NextFetch]_vars

----------------------------------------------------------------------------
(* One call of a resolver of flom-config *)

S_DE == <<"D","E">>
VarErrors == {Err("VarError", "NotPresent"), Err("VarError", "NotUnicode")}
EnvStrings == {<<>>, <<" ", "\t">>, S_JP, <<" ">> \o S_JP \o <<"\n">>, S_spotify}
FileStrings == {None, Some(<<>>), Some(S_DE), Some(S_itunes)}
EnvFlags == {<<>>, <<" ">>, S_1, <<"0">>, S_true, to_uppercase(S_true), <<" ">> \o S_true,
             <<"Y","e","s">>, <<"n","o">>}
FileFlags == {None, Some(TRUE), Some(FALSE)}

InitConfig ==
    /\ MainOff
    /\ \/ \E fn \in {"resolve_odesli_key", "resolve_default_target", "resolve_user_country"},
             var \in VarErrors \cup {Ok(v) : v \in EnvStrings}, file \in FileStrings :
                probe = [fn |-> fn, var |-> var, file |-> file, output |-> Pending]
       \/ \E var \in VarErrors \cup {Ok(v) : v \in EnvFlags}, file \in FileFlags :
                probe = [fn |-> "resolve_simple_output", var |-> var, file |-> file,
                         output |-> Pending]

CallResolveOdesliKey ==
    /\ probe.fn = "resolve_odesli_key"
    /\ probe.output = Pending
    /\ probe' = [probe EXCEPT !.output = Some(resolve_odesli_key(probe.var, probe.file))]
    /\ UNCHANGED MainVars

CallResolveDefaultTarget ==
    /\ probe.fn = "resolve_default_target"
    /\ probe.output = Pending
    /\ probe' = [probe EXCEPT !.output = Some(resolve_default_target(probe.var, probe.file))]
    /\ UNCHANGED MainVars

CallResolveUserCountry ==
    /\ probe.fn = "resolve_user_country"
    /\ probe.output = Pending
    /\ probe' = [probe EXCEPT !.output = Some(resolve_user_country(probe.var, probe.file))]
    /\ UNCHANGED MainVars

CallResolveSimpleOutput ==
    /\ probe.fn = "resolve_simple_output"
    /\ probe.output = Pending
    /\ probe' = [probe EXCEPT !.output = Some(resolve_simple_output(probe.var, probe.file))]
    /\ UNCHANGED MainVars

NextConfig ==
    \/ CallResolveOdesliKey
    \/ CallResolveDefaultTarget
    \/ CallResolveUserCountry
    \/ CallResolveSimpleOutput

SpecConfig == InitConfig /\ [][NextConfig]_vars

----------------------------------------------------------------------------
(* Platform Normalizer properties *)

NormReturned == probe.fn = "normalize_target" /\ probe.output # Pending

C11_UnrecognizedIsNothing ==
    NormReturned =>
        /\ to_lowercase(trim(probe.input)) \notin AliasTable => probe.output.some = None
        /\ IsSome(probe.output.some) => probe.output.some.some \in EightKeys

\* C11 witness: the whitespace-only string gave nothing.
C11_Witness ==
    /\ NormReturned
    /\ probe.input = <<" ">>
    /\ probe.output = Some(None)

\* The label of each canonical key, as test_display_name_all_platforms states them.
LabelTable == {<<S_appleMusic, L_AppleMusic>>, <<S_itunes, L_iTunes>>,
               <<S_spotify, L_Spotify>>, <<S_youtube, L_YouTube>>,
               <<S_youtubeMusic, L_YouTubeMusic>>, <<S_tidal, L_Tidal>>,
               <<S_deezer, L_Deezer>>, <<S_amazonMusic, L_AmazonMusic>>}

TargetsReturned == probe.fn = "targets_from_response" /\ probe.output # Pending
TargetOptions == probe.output.some

\* C12: targets_from_response yields exactly one {key, label} pair for each key
\* of linksByPlatform, the label being display_name(key): the fixed non-empty
\* label for each of the eight canonical keys, and the key itself otherwise.
C12_OneLabelledOptionPerKey ==
    TargetsReturned =>
        /\ Len(TargetOptions) = Cardinality(DOMAIN probe.body.linksByPlatform)
        /\ \A k \in DOMAIN probe.body.linksByPlatform :
                Cardinality({i \in DOMAIN TargetOptions : TargetOptions[i].key = k}) = 1
        /\ \A i \in DOMAIN TargetOptions :
            LET option == TargetOptions[i] IN
            /\ option.key \in DOMAIN probe.body.linksByPlatform
            /\ option.label = display_name(option.key)
            /\ option.key \in EightKeys =>
                    <<option.key, option.label>> \in LabelTable /\ option.label # <<>>
            /\ option.key \notin EightKeys => option.label = option.key

\* C12 witness: a labelled platform and a key without a label, one option each.
C12_Witness ==
    /\ TargetsReturned
    /\ Len(TargetOptions) = 2
    /\ \E i, j \in DOMAIN TargetOptions :
            /\ TargetOptions[i] = [key |-> S_amazonMusic, label |-> L_AmazonMusic]
            /\ TargetOptions[j] = [key |-> S_napster, label |-> S_napster]

----------------------------------------------------------------------------
(* Conversion Builder properties *)

ConvReturned(i) == probe.fn = "convert_from_response" /\ probe.results[i] # Pending
ConvLinks == probe.body.linksByPlatform
ConvSourceEntity == map_get(probe.body.entitiesByUniqueId, probe.body.entityUniqueId)
ConvNoProvider == ConvSourceEntity = None \/ ConvSourceEntity.some.api_provider = None
ConvMatches == {k \in DOMAIN ConvLinks : ConvLinks[k].url = probe.source_url}

\* C2: a target key that is not a key of linksByPlatform gives UnsupportedInput
\* naming that key, and every Ok result has its target_url present.
C2_AbsentTargetIsUnsupported ==
    \A i \in {1, 2} : ConvReturned(i) =>
        /\ probe.target_key \notin DOMAIN ConvLinks =>
              /\ IsErr(probe.results[i])
              /\ probe.results[i].err = "UnsupportedInput"
              /\ probe.results[i].msg.arg = probe.target_key
        /\ IsOk(probe.results[i]) => IsSome(probe.results[i].ok.target_url)

\* C2 witness: a response with links, asked for a key it has no link for.
C2_Witness ==
    /\ ConvReturned(1)
    /\ DOMAIN ConvLinks = {S_itunes, S_spotify}
    /\ probe.target_key = S_tidal
    /\ IsErr(probe.results[1])

\* C3: when the canonical source entity reports no provider and the target key is
\* present, the call succeeds; source_platform is a platform key whose link url
\* equals the source URL, and is absent when no link url equals it.
C3_InferredSourcePlatform ==
    \A i \in {1, 2} :
        (ConvReturned(i) /\ ConvNoProvider /\ probe.target_key \in DOMAIN ConvLinks) =>
            /\ IsOk(probe.results[i])
            /\ IF ConvMatches = {} THEN probe.results[i].ok.source_platform = None
               ELSE /\ IsSome(probe.results[i].ok.source_platform)
                    /\ probe.results[i].ok.source_platform.some \in ConvMatches

\* C3 witness: the one link whose url is the source URL is found among three.
C3_Witness ==
    /\ ConvReturned(1)
    /\ ConvNoProvider
    /\ DOMAIN ConvLinks = PlatformKeys
    /\ ConvMatches = {S_tidal}
    /\ probe.target_key = S_itunes
    /\ IsOk(probe.results[1])
    /\ probe.results[1].ok.source_platform = Some(S_tidal)

\* C3 witness of the other case: no link url equals the source URL.
C3_WitnessNoMatch ==
    /\ ConvReturned(1)
    /\ ConvNoProvider
    /\ ConvLinks # <<>>
    /\ ConvMatches = {}
    /\ IsOk(probe.results[1])
    /\ probe.results[1].ok.source_platform = None

\* C4: two calls with the same response body, source URL and target key return
\* results identical in every field.
C4_Deterministic ==
    (ConvReturned(1) /\ ConvReturned(2)) => probe.results[1] = probe.results[2]

ConvEntities == probe.body.entitiesByUniqueId
Projection(e) == [title |-> e.title, artist |-> e.artist_name, album |-> e.album_name]

\* C17: for a target key that has a link, the conversion succeeds whether or not
\* the entities exist: source_info is present exactly when entitiesById has
\* canonicalEntityId, target_info exactly when it has the target link's entityId,
\* and title, artist and album are those of the entity, present or absent as
\* they are there.
C17_IdentityProjection ==
    \A i \in {1, 2} : (ConvReturned(i) /\ probe.target_key \in DOMAIN ConvLinks) =>
        LET source_id == probe.body.entityUniqueId
            target_id == ConvLinks[probe.target_key].entity_unique_id
        IN /\ IsOk(probe.results[i])
           /\ IsSome(probe.results[i].ok.source_info) <=> source_id \in DOMAIN ConvEntities
           /\ source_id \in DOMAIN ConvEntities =>
                probe.results[i].ok.source_info = Some(Projection(ConvEntities[source_id]))
           /\ IsSome(probe.results[i].ok.target_info) <=> target_id \in DOMAIN ConvEntities
           /\ target_id \in DOMAIN ConvEntities =>
                probe.results[i].ok.target_info = Some(Projection(ConvEntities[target_id]))

\* C17 witness: the source entity exists and has no album, the target link's
\* entity does not exist, and the conversion succeeded.
C17_Witness ==
    /\ ConvReturned(1)
    /\ probe.target_key \in DOMAIN ConvLinks
    /\ ConvLinks[probe.target_key].entity_unique_id \notin DOMAIN ConvEntities
    /\ IsOk(probe.results[1])
    /\ probe.results[1].ok.target_info = None
    /\ IsSome(probe.results[1].ok.source_info)
    /\ probe.results[1].ok.source_info.some.album = None
    /\ IsSome(probe.results[1].ok.source_info.some.artist)

----------------------------------------------------------------------------
(* Properties of the batch loop and of process_url *)

\* process_url (or shorten) has returned for the current URL.
Returned == url # None /\ last # None
\* The resolution succeeded and the target has been interpreted.
TargetDecided == response # None /\ pc # "target"
Chosen == chosen_target(explicit_target, default_target)
Steps(name) == {i \in 1..Len(trace) : trace[i] = name}
PrintedPlatforms == [i \in 1..Len(out) |-> out[i].target_platform.some]
ResponseKeys == DOMAIN response.some.links_by_platform.entries

\* C1: a request is sent only after validate_url ran on the URL and accepted it;
\* for a URL validate_url rejects, fetch_links and shorten return InvalidInput and
\* no request is ever sent.
C1_ValidationBeforeRequest ==
    /\ \A i \in Steps("send") :
          /\ \E j \in Steps("validate_url") : j < i
          /\ IsOk(validate_url(url.some))
    /\ pc \in {"send", "await", "target", "convert"} => IsOk(validate_url(url.some))
    /\ (url # None /\ pc # "validate" /\ IsErr(validate_url(url.some))) =>
          /\ last # None
          /\ IsErr(last.some)
          /\ last.some.err = "InvalidInput"
          /\ last.some = validate_url(url.some)
          /\ Steps("send") = {}
          /\ response = None

\* C1 witness: shorten on "not-a-url" returned InvalidInput having sent nothing.
C1_Witness ==
    /\ shorten_mode
    /\ url = Some(U_not_a_url)
    /\ Returned
    /\ last.some.err = "InvalidInput"
    /\ trace = <<"validate_url">>

\* C1 witness for MusicConverter::fetch_links.
C1_WitnessFetchLinks ==
    /\ ~shorten_mode
    /\ url = Some(U_no_host)
    /\ Returned
    /\ last.some.err = "InvalidInput"
    /\ trace = <<"validate_url">>

\* C5: under the All selection process_url prints one result per key of
\* linksByPlatform, each key once, in ascending byte-wise order of the keys,
\* whatever the order in which the map iterates them.
C5_AllInKeyOrder ==
    (Returned /\ target_key = Some(S_all)) =>
        /\ last.some = Ok(Cardinality(ResponseKeys))
        /\ Len(out) = Cardinality(ResponseKeys)
        /\ Range(PrintedPlatforms) = ResponseKeys
        /\ \A i \in 1..Len(out) : \A j \in 1..Len(out) :
              i < j => str_lt(PrintedPlatforms[i], PrintedPlatforms[j])
        /\ ResponseKeys = {S_itunes, S_spotify, S_tidal} =>
              PrintedPlatforms = <<S_itunes, S_spotify, S_tidal>>
        /\ \A i \in 1..Len(out) :
              out[i].target_url = Some(response.some.links_by_platform.entries[PrintedPlatforms[i]].url)

\* C5 witness: the map iterates tidal, spotify, itunes; the results are printed
\* for itunes, spotify, tidal.
C5_Witness ==
    /\ Returned
    /\ target_key = Some(S_all)
    /\ response.some.links_by_platform.iter = <<S_tidal, S_spotify, S_itunes>>
    /\ PrintedPlatforms = <<S_itunes, S_spotify, S_tidal>>

\* C6: under the songlink selection process_url prints exactly one result, with
\* target_url the response's page_url, target_platform "songlink", no source_info
\* and no target_info, without any lookup in linksByPlatform, for every response.
C6_SonglinkPage ==
    (Returned /\ target_key = Some(S_songlink)) =>
        /\ last.some = Ok(1)
        /\ Len(out) = 1
        /\ out[1].target_url = Some(response.some.page_url)
        /\ out[1].target_platform = Some(S_songlink)
        /\ out[1].source_info = None
        /\ out[1].target_info = None
        /\ out[1].source_url = url.some
        /\ Steps("convert_from_response") = {}

\* C6 witness: the songlink result for a response whose linksByPlatform is empty.
C6_Witness ==
    /\ Returned
    /\ target_key = Some(S_songlink)
    /\ ResponseKeys = {}
    /\ Len(out) = 1
    /\ out[1].target_url = Some(U_page)

NonBlank(target) == target # None /\ trim(target.some) # <<>>

\* What process_url did with target string `t`: the key or the error of its
\* interpretation, and no prompt.
Used(t) ==
    /\ Steps("prompt_target") = {}
    /\ IF IsErr(interpret_target(t).ret)
       THEN last = Some(interpret_target(t).ret)
       ELSE target_key = Some(interpret_target(t).ret.ok)

\* C7: the explicit target is used if present and non-blank; otherwise the default
\* target is used; the prompt is consulted only when neither supplies a target.
C7_TargetPrecedence ==
    TargetDecided =>
        IF NonBlank(explicit_target) THEN Used(explicit_target.some)
        ELSE IF default_target # None THEN Used(default_target.some)
        ELSE Steps("prompt_target") # {}

\* C8: a target that is "all" or "songlink" once trimmed and lower-cased selects
\* that variant without a call of normalize_target and without an error; the
\* prompt's "All available" and "Songlink page" select the same two variants.
C8_AllAndSonglinkBypass ==
    TargetDecided =>
        /\ (Chosen # None /\ to_lowercase(trim(Chosen.some)) \in {S_all, S_songlink}) =>
              /\ target_key = Some(to_lowercase(trim(Chosen.some)))
              /\ Steps("normalize_target") = {}
              /\ last # None => IsOk(last.some)
        /\ selected = Some(L_AllAvailable) => target_key = Some(S_all)
        /\ selected = Some(L_SonglinkPage) => target_key = Some(S_songlink)

\* C8 witness: the target " All\n" selected All and its results were printed.
C8_Witness ==
    /\ Returned
    /\ explicit_target = Some(<<" ", "A", "l", "l", "\n">>)
    /\ target_key = Some(S_all)
    /\ Len(out) = 3

\* C8 witness for the prompt: "Songlink page" was picked.
C8_WitnessPrompt ==
    /\ Returned
    /\ selected = Some(L_SonglinkPage)
    /\ target_key = Some(S_songlink)
    /\ Len(out) = 1

Unrecognized ==
    /\ Chosen # None
    /\ to_lowercase(trim(Chosen.some)) \notin {S_all, S_songlink}
    /\ normalize_target(Chosen.some) = None

UnknownTargetFailure ==
    /\ IsErr(last.some)
    /\ last.some.err = "InvalidInput"
    /\ last.some.msg.fmt = "unknown target: {target}"
    /\ last.some.msg.arg = Chosen.some
    /\ Steps("convert_from_response") = {}
    /\ out = <<>>

\* C9 as stated: for every target string other than all/songlink that
\* normalize_target does not recognize, process_url fails with InvalidInput
\* naming the target, before any conversion and before any result.
C9_UnknownTargetAlwaysReported ==
    (~shorten_mode /\ Returned /\ Unrecognized) => UnknownTargetFailure

\* C9 amended: the same, whenever the resolution request for the URL succeeded.
C9_UnknownTargetAfterResolution ==
    (~shorten_mode /\ Returned /\ response # None /\ Unrecognized) => UnknownTargetFailure

\* C9 witness: the target "bogus" was refused after the response arrived.
C9_Witness ==
    /\ Returned
    /\ response # None
    /\ explicit_target = Some(S_bogus)
    /\ last.some.msg.arg = S_bogus
    /\ trace = <<"validate_url", "send", "normalize_target">>

\* C18: when the target string given normalizes to a canonical key k that is a
\* key of linksByPlatform, process_url prints exactly one result: its
\* target_platform is k, its target_url the url of linksByPlatform[k], its
\* source_url the input URL, and it has no warning.
C18_SpecificSelection ==
    (/\ Returned
     /\ response # None
     /\ Chosen # None
     /\ normalize_target(Chosen.some) # None
     /\ normalize_target(Chosen.some).some \in ResponseKeys) =>
        LET k == normalize_target(Chosen.some).some IN
        /\ last = Some(Ok(1))
        /\ Len(out) = 1
        /\ out[1].target_platform = Some(k)
        /\ out[1].target_url = Some(response.some.links_by_platform.entries[k].url)
        /\ out[1].source_url = url.some
        /\ out[1].warning = None

\* C18 witness: the target given as " Apple-music " gave the appleMusic link.
C18_Witness ==
    /\ Returned
    /\ explicit_target = Some(<<" ">> \o Cased(S_apple_hyphen, "Title") \o <<" ">>)
    /\ Len(out) = 1
    /\ out[1].target_platform = Some(S_appleMusic)
    /\ out[1].target_url = Some(BatchLink(S_appleMusic).url)

\* The keys of the response that normalize_target cannot return, and the two
\* ways process_url meets one: the All selection, and the user picking it.
UnknownKeys == ResponseKeys \ EightKeys
UnknownKeyMet ==
    /\ Returned
    /\ response # None
    /\ target_key # None
    /\ UnknownKeys # {}
    /\ \/ target_key.some = S_all
       \/ Steps("prompt_target") # {} /\ target_key.some \in UnknownKeys

----------------------------------------------------------------------------
(* Resolution Client properties *)

FetchReturned == probe.fn = "fetch_links" /\ probe.output # Pending
SendFailed == "transport" \in DOMAIN probe.reply
BodyFailed == ~SendFailed /\ "broken" \in DOMAIN probe.reply.body
BodyConforms == ~SendFailed /\ "json" \in DOMAIN probe.reply.body
StatusSuccess == ~SendFailed /\ is_success(probe.reply.status)

\* C14: every outcome of the exchange gives one typed result: a transport
\* failure gives Network; a non-success status gives Api with the status and the
\* body as received; a success status with a body that is not of the schema
\* gives Parse; a success status with a body of the schema, and nothing else,
\* gives Ok.
C14_OutcomeClassified ==
    FetchReturned =>
        /\ (SendFailed \/ BodyFailed) => IsErr(probe.output) /\ probe.output.err = "Network"
        /\ (~SendFailed /\ ~BodyFailed /\ ~StatusSuccess) =>
                /\ IsErr(probe.output)
                /\ probe.output.err = "Api"
                /\ probe.output.msg.arg = [status |-> probe.reply.status,
                                           body |-> probe.reply.body]
        /\ (StatusSuccess /\ ~BodyFailed /\ ~BodyConforms) =>
                IsErr(probe.output) /\ probe.output.err = "Parse"
        /\ IsOk(probe.output) <=> (StatusSuccess /\ BodyConforms)

Valid(u) == IsOk(validate_url(u))
RequestPending == url # None /\ last = None /\ Steps("send") # {}

\* C15: a call of fetch_links on a valid URL sends one request and returns one
\* result: no request follows a failure, and every call sends its own request,
\* whatever was sent or returned for the same URL before.
C15_OneRequestPerCall ==
    ~shorten_mode =>
        /\ Cardinality(Steps("send")) <= 1
        /\ (Returned /\ Valid(url.some)) => Cardinality(Steps("send")) = 1
        /\ requests = SelectSeq(processed, Valid)
                       \o (IF RequestPending THEN <<url.some>> ELSE <<>>)
        /\ Len(processed) + Len(urls) + (IF url # None /\ last = None THEN 1 ELSE 0)
                = Len(inputs)

\* C15 witness: the same URL twice in a batch; a request was sent for each, one
\* call failed and the other gave results.
C15_Witness ==
    /\ ~shorten_mode
    /\ inputs = <<U1, U1>>
    /\ processed = inputs
    /\ requests = <<U1, U1>>
    /\ failed = 1
    /\ success >= 1

\* The names of the query parameters of the request sent, and whether a key that
\* is not blank is configured.
QueryNames == {probe.request.query[i].name : i \in DOMAIN probe.request.query}
KeyConfigured ==
    /\ probe.api_key # None
    /\ \E i \in DOMAIN probe.api_key.some : ~is_whitespace(probe.api_key.some[i])

\* C16: the request carries url and userCountry; it carries key exactly when a
\* key is configured that is not blank after trimming; the key is a query
\* parameter and never a header; the other parameters and the headers are the
\* same with and without the key.
C16_RequestShape ==
    FetchReturned =>
        /\ SubSeq(probe.request.query, 1, 2) =
                <<[name |-> "url", value |-> probe.source_url],
                  [name |-> "userCountry", value |-> probe.user_country]>>
        /\ "key" \in QueryNames <=> KeyConfigured
        /\ KeyConfigured =>
                probe.request.query =
                    SubSeq(probe.request.query, 1, 2)
                    \o <<[name |-> "key", value |-> probe.api_key.some]>>
        /\ ~KeyConfigured => Len(probe.request.query) = 2
        /\ probe.request.headers = <<[name |-> "Accept", value |-> "application/json"],
                                     [name |-> "User-Agent", value |-> "flom/0.1"]>>
        /\ \A i \in DOMAIN probe.request.headers : probe.request.headers[i].name # "key"

\* C16 witness: a key of blanks is configured, and the request has no key.
C16_Witness ==
    /\ FetchReturned
    /\ probe.api_key = Some(<<" ", " ">>)
    /\ QueryNames = {"url", "userCountry"}

----------------------------------------------------------------------------
(* Configuration properties *)

Resolvers == {"resolve_odesli_key", "resolve_default_target", "resolve_user_country",
              "resolve_simple_output"}
ConfigReturned == probe.fn \in Resolvers /\ probe.output # Pending

\* What the environment variable gives when it is the one used, and what the
\* file gives when it is.
EnvValue ==
    CASE probe.fn \in {"resolve_odesli_key", "resolve_default_target"} -> Some(probe.var.ok)
      [] probe.fn = "resolve_user_country" -> trim(probe.var.ok)
      [] probe.fn = "resolve_simple_output" ->
            Some(to_lowercase(probe.var.ok) \in {S_1, S_true, S_yes})
FileValue ==
    IF probe.fn = "resolve_user_country"
    THEN (IF probe.file = None THEN S_US ELSE probe.file.some)
    ELSE probe.file

\* C20 as stated: whenever the environment variable is set, what it holds is the
\* resolved value, and the file's value (for userCountry, "US" when the file has
\* none) is the resolved value only when the variable is not set.
C20_EnvironmentFirst ==
    ConfigReturned =>
        /\ IsOk(probe.var) => probe.output.some = EnvValue
        /\ IsErr(probe.var) => probe.output.some = FileValue

\* C20 as the code has it: for apiKey, defaultTarget and userCountry the variable
\* is used when its value is not blank after trimming (for userCountry, the
\* trimmed value), and the file's value when the variable is unset, unreadable
\* or blank; for simpleOutputMode the variable decides whenever it is set, blank
\* or not; userCountry is "US" when neither gives it.
EnvSupplies ==
    /\ IsOk(probe.var)
    /\ \/ probe.fn = "resolve_simple_output"
       \/ \E i \in DOMAIN probe.var.ok : ~is_whitespace(probe.var.ok[i])
C20_NonBlankEnvironmentFirst ==
    ConfigReturned =>
        /\ EnvSupplies => probe.output.some = EnvValue
        /\ ~EnvSupplies => probe.output.some = FileValue

\* C20 witness: FLOM_DEFAULT_TARGET is set to blanks, and the file's target is
\* the one resolved.
C20_Witness ==
    /\ ConfigReturned
    /\ probe.fn = "resolve_default_target"
    /\ probe.var = Ok(<<" ", "\t">>)
    /\ probe.file = Some(S_itunes)
    /\ probe.output = Some(Some(S_itunes))

----------------------------------------------------------------------------
(* Properties of the batch as a whole *)

IsPrefix(p, q) == Len(p) <= Len(q) /\ SubSeq(q, 1, Len(p)) = p

\* C13: no failure of a URL ends the batch: the URLs are processed once each, in
\* input order, all of them are eventually processed, and the summary is
\* eventually printed, after the last of them.
C13_BatchRunsToSummary ==
    /\ [](IsPrefix(processed, inputs) /\ (summary # None => processed = inputs))
    /\ <>(pc = "done" /\ summary # None /\ processed = inputs)

\* C13 witness: the first URL of a batch of two failed, the second gave a result,
\* and the summary was printed.
C13_Witness ==
    /\ pc = "done"
    /\ summary # None
    /\ Len(inputs) = 2
    /\ inputs[1] = U_not_a_url
    /\ processed = inputs
    /\ failed = 1
    /\ success >= 1

\* The requests that got their reply, and those that did not yet.
Answered ==
    Len(SelectSeq(processed, Valid))
    + (IF url # None /\ last = None /\ pc \in {"target", "convert"} THEN 1 ELSE 0)
InFlight == Len(requests) - Answered

\* C21: the URLs are processed one after another in input order: at most one
\* request is in flight at any moment, and the request for a URL is sent only
\* when every URL before it has been processed to its end, its results printed
\* or its failure returned.
C21_OneAtATimeInOrder ==
    /\ [](/\ InFlight \in {0, 1}
          /\ InFlight = 1 <=> pc = "await"
          /\ IsPrefix(processed, inputs))
    /\ [][requests' # requests =>
            /\ InFlight = 0
            /\ Len(processed) = Len(inputs) - Len(urls) - 1
            /\ requests' = Append(requests, inputs[Len(processed) + 1])]_vars

\* C21 witness: the first URL of two has been processed with a result printed,
\* and the request for the second is in flight.
C21_Witness ==
    /\ ~shorten_mode
    /\ inputs = <<U1, U2>>
    /\ processed = <<U1>>
    /\ success >= 1
    /\ requests = <<U1, U2>>
    /\ pc = "await"

AllSelected == response # None /\ target_key = Some(S_all)

\* C22: under the All selection process_url does not fail once the resolution
\* succeeded: it converts the keys of linksByPlatform, one result each, and
\* returns their number; nothing is printed for a URL that is counted as failed;
\* with no key at all it returns Ok(0), which adds to neither counter.
C22_AllNeverFails ==
    /\ []((Returned /\ AllSelected) =>
            /\ last = Some(Ok(Cardinality(ResponseKeys)))
            /\ Len(out) = Cardinality(ResponseKeys)
            /\ \A i \in DOMAIN out :
                    out[i].target_platform.some \in ResponseKeys)
    /\ []((Returned /\ IsErr(last.some)) => out = <<>>)
    /\ [][(pc = "convert" /\ AllSelected) =>
            /\ failed' = failed
            /\ success' = success + Cardinality(ResponseKeys)
            /\ ResponseKeys = {} =>
                    last' = Some(Ok(0)) /\ out' = <<>> /\ success' = success]_vars

\* C22 witness: the All selection on a response without links returned Ok(0);
\* the URL is processed and neither counter moved.
C22_Witness ==
    /\ Returned
    /\ AllSelected
    /\ ResponseKeys = {}
    /\ last = Some(Ok(0))
    /\ processed = <<url.some>>
    /\ success = 0
    /\ failed = 0

Errors == {i \in DOMAIN outcomes : outcomes[i] = "err"}

\* C23: the counters are, all along, the number of results printed and the
\* number of URLs that returned an error, and the summary printed at the end
\* gives them with Total = Success + Failed; Total is the number of results plus
\* the number of failed URLs, not the number of input URLs.
C23_SummaryCounts ==
    /\ success = emitted
    /\ failed = Cardinality(Errors)
    /\ summary # None =>
            /\ Len(outcomes) = Len(inputs)
            /\ summary.some.success = emitted
            /\ summary.some.failed = Cardinality(Errors)
            /\ summary.some.total = emitted + Cardinality(Errors)
            /\ summary.some.total = summary.some.success + summary.some.failed

\* C23 witness: a batch of two URLs, one failed and one converted to all three
\* platforms of its response: the summary says Total 4, Success 3, Failed 1.
C23_Witness ==
    /\ ~shorten_mode
    /\ Len(inputs) = 2
    /\ summary = Some([total |-> 4, success |-> 3, failed |-> 1])
    /\ emitted = 3
    /\ Cardinality(Errors) = 1

----------------------------------------------------------------------------
(* Order of the steps of process_url *)

\* The stage of process_url a step belongs to.
Stage(step) ==
    CASE step = "validate_url" -> 1
      [] step = "send" -> 2
      [] step \in {"normalize_target", "prompt_target"} -> 3
      [] step \in {"convert_from_response", "print_result"} -> 4
UnknownTargetReported ==
    IsErr(last.some) /\ last.some.msg.fmt = "unknown target: {target}"

\* C24: process_url validates the URL, then sends the request, then interprets
\* the target, then converts.  A target string that is not recognized is found
\* out only once the request succeeded, one request having been sent; when the
\* URL or the resolution is bad as well, the error returned is that of the
\* validation or of the request, not "unknown target".
C24_StepOrder ==
    ~shorten_mode =>
        /\ \A i, j \in DOMAIN trace : i < j => Stage(trace[i]) <= Stage(trace[j])
        /\ trace # <<>> => trace[1] = "validate_url"
        /\ \A i \in DOMAIN trace :
                /\ Stage(trace[i]) >= 2 => Valid(url.some) /\ Steps("send") # {}
                /\ Stage(trace[i]) >= 3 => response # None
        /\ (Returned /\ Unrecognized) =>
                /\ UnknownTargetReported =>
                        /\ response # None
                        /\ trace = <<"validate_url", "send", "normalize_target">>
                /\ Valid(url.some) => Cardinality(Steps("send")) = 1
                /\ ~Valid(url.some) => last.some = validate_url(url.some)
                /\ (Valid(url.some) /\ response = None) =>
                        /\ IsErr(last.some)
                        /\ last.some.err \in {"Network", "Api", "Parse"}
                        /\ trace = <<"validate_url", "send">>

\* C24 witness: the target "bogus" and a request that failed: the error is the
\* request's, and the target was never looked at.
C24_Witness ==
    /\ ~shorten_mode
    /\ Returned
    /\ explicit_target = Some(S_bogus)
    /\ Valid(url.some)
    /\ last.some.err = "Network"
    /\ trace = <<"validate_url", "send">>

----------------------------------------------------------------------------
(* Source platform *)

SourceConverted(i) ==
    probe.fn = "source_platform" /\ probe.results[i] # Pending /\ IsOk(probe.results[i])

\* C25: when the canonical entity is present and reports a provider,
\* source_platform is that provider, whatever link has the source URL; when the
\* entity is missing or reports none, source_platform is a key whose link has the
\* source URL, or absent when there is none; and two conversions of the same
\* response for different target keys give the same source_platform.
C25_ProviderBeforeUrlMatch ==
    /\ \A i \in {1, 2} : SourceConverted(i) =>
            /\ ~ConvNoProvider =>
                    probe.results[i].ok.source_platform = ConvSourceEntity.some.api_provider
            /\ ConvNoProvider =>
                    IF ConvMatches = {} THEN probe.results[i].ok.source_platform = None
                    ELSE /\ IsSome(probe.results[i].ok.source_platform)
                         /\ probe.results[i].ok.source_platform.some \in ConvMatches
    /\ (SourceConverted(1) /\ SourceConverted(2)) =>
            probe.results[1].ok.source_platform = probe.results[2].ok.source_platform

\* C25 witness: the entity reports itunes, the only link with the source URL is
\* under tidal, and both conversions name itunes as the source platform.
C25_Witness ==
    /\ SourceConverted(1)
    /\ SourceConverted(2)
    /\ ~ConvNoProvider
    /\ ConvSourceEntity.some.api_provider = Some(S_itunes)
    /\ ConvMatches = {S_tidal}
    /\ probe.results[1].ok.source_platform = Some(S_itunes)
    /\ probe.results[2].ok.source_platform = Some(S_itunes)

====
